---- MODULE Spec2Model ----
(***************************************************************************)
(* A model of trial_dashboard.py: the fuzzy column resolver (normalize,    *)
(* col), the spreadsheet loader (load_df), the top-level pipeline          *)
(* (validation, date coercion, asset aggregation and join, form join, KPI  *)
(* derivation, per-site flags) and the visit-window block.                 *)
(*                                                                         *)
(* Strings that the code inspects character by character (column names,    *)
(* candidates) are sequences of one-character strings.  Dates are day      *)
(* numbers; NaT stands for pandas' missing marker (NaT / NaN).             *)
(***************************************************************************)
EXTENDS Integers, Sequences, FiniteSets, TLC

VARIABLES pc,
          columns, cands, result,
          raw, hdr, df,
          unresolved, sites_df, asset_df, forms_df, asset_agg,
          errs, error, kpi, site_counts, site_flags,
          loaded_sites, completed,
          vw, adherence

vars == <<pc, columns, cands, result, raw, hdr, df,
          unresolved, sites_df, asset_df, forms_df, asset_agg,
          errs, error, kpi, site_counts, site_flags,
          loaded_sites, completed, vw, adherence>>

colVars  == <<columns, cands, result>>
loadVars == <<raw, hdr, df>>
pipeVars == <<unresolved, sites_df, asset_df, forms_df, asset_agg,
              errs, error, kpi, site_counts, site_flags,
              loaded_sites, completed>>
vwVars   == <<vw, adherence>>

(***************************************************************************)
(* Generic helpers on sequences and sets.                                  *)
(***************************************************************************)
Range(s) == {s[i] : i \in 1..Len(s)}

Min(S) == CHOOSE x \in S : \A y \in S : x <= y
Max(S) == CHOOSE x \in S : \A y \in S : x >= y

Abs(x) == IF x < 0 THEN 0 - x ELSE x

\* All sequences over S of length lo..hi.
SeqsOf(S, lo, hi) == UNION {[1..n -> S] : n \in lo..hi}

\* s with its i-th element removed.
RemoveAt(s, i) == [j \in 1..(Len(s) - 1) |-> IF j < i THEN s[j] ELSE s[j + 1]]

\* All orderings of the elements of the sequence s.
RECURSIVE Perms(_)
Perms(s) ==
  IF Len(s) = 0 THEN {<<>>}
  ELSE UNION {{<<s[i]>> \o p : p \in Perms(RemoveAt(s, i))} : i \in 1..Len(s)}

(***************************************************************************)
(* The pandas / Python "no value" markers.                                 *)
(***************************************************************************)
\* Python None, as the result of col: no column name is this sequence.
None == <<"None">>

\* pandas NaT / NaN (a cell or a derived value that is missing).
NaT == -1000

(***************************************************************************)
(* normalize(name): lower-case, every non [a-z0-9] character to a space,   *)
(* runs of whitespace to one space, strip.                                 *)
(***************************************************************************)
Chars == {"a", "b", "A", "1", "_", " "}

lower(c) == IF c = "A" THEN "a" ELSE c

IsAlnum(c) == c \in {"a", "b", "1"}

\* re.sub(r'\s+', ' ', s): a run of spaces becomes one space.
RECURSIVE CollapseSpaces(_)
CollapseSpaces(s) ==
  IF Len(s) <= 1 THEN s
  ELSE IF s[1] = " " /\ s[2] = " " THEN CollapseSpaces(Tail(s))
  ELSE <<s[1]>> \o CollapseSpaces(Tail(s))

\* str.strip() of a string whose runs of spaces are already single.
Strip(s) ==
  LET a == IF Len(s) > 0 /\ s[1] = " " THEN Tail(s) ELSE s
  IN  IF Len(a) > 0 /\ a[Len(a)] = " " THEN SubSeq(a, 1, Len(a) - 1) ELSE a

normalize(name) ==
  LET low == [i \in 1..Len(name) |-> lower(name[i])]
      sub == [i \in 1..Len(low) |-> IF IsAlnum(low[i]) THEN low[i] ELSE " "]
  IN  Strip(CollapseSpaces(sub))

\* Python's `a in b` on strings.
IsSubstring(a, b) ==
  \E i \in 0..(Len(b) - Len(a)) : SubSeq(b, i + 1, i + Len(a)) = a

(***************************************************************************)
(* col(df, *cands).  norm_map is a dict comprehension over df.columns: a   *)
(* key keeps the position of its first insertion and the value of its last *)
(* assignment.                                                             *)
(***************************************************************************)
\* The keys of norm_map in iteration order.
RECURSIVE NormKeys(_)
NormKeys(cs) ==
  IF Len(cs) = 0 THEN <<>>
  ELSE LET init == NormKeys(SubSeq(cs, 1, Len(cs) - 1))
           k    == normalize(cs[Len(cs)])
       IN  IF k \in Range(init) THEN init ELSE Append(init, k)

\* norm_map[k]: the last column whose normalized name is k.
NormMapAt(cs, k) ==
  cs[Max({i \in 1..Len(cs) : normalize(cs[i]) = k})]

colSinglePass(cs, cds) ==
  LET keys == NormKeys(cs)
      Hit(j) == {i \in 1..Len(keys) : IsSubstring(normalize(cds[j]), keys[i])}
      hits == {j \in 1..Len(cds) : Hit(j) # {}}
  IN  IF hits # {} THEN NormMapAt(cs, keys[Min(Hit(Min(hits)))]) ELSE None

col(cs, cds) ==
  LET keys  == NormKeys(cs)
      exact == {j \in 1..Len(cds) : normalize(cds[j]) \in Range(keys)}
      Hit(j) == {i \in 1..Len(keys) : IsSubstring(normalize(cds[j]), keys[i])}
      hits  == {j \in 1..Len(cds) : Hit(j) # {}}
  IN  IF exact # {} THEN NormMapAt(cs, normalize(cds[Min(exact)]))
      ELSE IF hits # {} THEN NormMapAt(cs, keys[Min(Hit(Min(hits)))])
      ELSE None

(***************************************************************************)
(* Specification of the resolver: a table's columns and a candidate list   *)
(* are drawn, then col is applied.                                         *)
(***************************************************************************)
MaxCols  == 2
MaxCands == 2

\* Column names of a loaded table (pandas keeps them pairwise distinct).
ColNames ==
  { <<"a">>, <<"A">>, <<"b">>, <<"a", "b">>, <<"a", "_", "b">>, <<"A", " ", "b">>,
    <<"_", "a">>, <<"a", "1">>, <<"b", "_", "_", "a">>, <<"1">> }

\* Candidate literals passed to col.
CandNames == { <<"a">>, <<"A", "_", "b">>, <<"b">>, <<"a", " ", "b">> }

IsInjective(s) == \A i, j \in 1..Len(s) : s[i] = s[j] => i = j

ColInit ==
  /\ pc = "col_call"
  /\ columns \in {s \in SeqsOf(ColNames, 0, MaxCols) : IsInjective(s)}
  /\ cands \in SeqsOf(CandNames, 1, MaxCands)
  /\ result = None

Resolve ==
  /\ pc = "col_call"
  /\ result' = col(columns, cands)
  /\ pc' = "col_done"
  /\ UNCHANGED <<columns, cands>>

(***************************************************************************)
(* load_df(buf): header detection on the raw grid, re-read with that row   *)
(* as header, drop all-empty columns, keep the rows that have a value.     *)
(***************************************************************************)
\* An empty cell of the sheet (NaN in the raw frame).
NaNCell == "<NaN>"

CellValues == {"Subject Number", "STUDY PROCEDURE", "x", NaNCell}

\* raw.iloc[i].astype(str).str.lower() on one cell.
str_lower(cell) ==
  CASE cell = "Subject Number"  -> "subject number"
    [] cell = "STUDY PROCEDURE" -> "study procedure"
    [] cell = NaNCell           -> "nan"
    [] OTHER                    -> cell

\* The values of row i (0-based) after astype(str).str.lower().
LoweredRow(grid, i) == {str_lower(grid[i + 1][j]) : j \in 1..Len(grid[i + 1])}

IsHeaderRowEither(grid, i) ==
  \/ "subject number" \in LoweredRow(grid, i)
  \/ "study procedure" \in LoweredRow(grid, i)

IsHeaderRow(grid, i) ==
  /\ "subject number" \in LoweredRow(grid, i)
  /\ "study procedure" \in LoweredRow(grid, i)

\* The loop of load_df: the first qualifying row, 0 when there is none.
detect_header(grid) ==
  LET q == {i \in 0..(Len(grid) - 1) : IsHeaderRow(grid, i)}
  IN  IF q = {} THEN 0 ELSE Min(q)

\* pandas' column names for a header row: an empty header cell is
\* "Unnamed: j", a repeated name gets the suffix ".k".
HeaderNames(row) ==
  [j \in 1..Len(row) |->
     IF row[j] = NaNCell THEN "Unnamed: " \o ToString(j - 1)
     ELSE LET k == Cardinality({m \in 1..(j - 1) : row[m] = row[j]})
          IN  IF k = 0 THEN row[j] ELSE row[j] \o "." \o ToString(k)]

\* The positions of s (in order) that satisfy Keep.
RECURSIVE KeptPositions(_, _)
KeptPositions(n, keep) ==
  IF n = 0 THEN <<>>
  ELSE IF n \in keep THEN Append(KeptPositions(n - 1, keep), n)
  ELSE KeptPositions(n - 1, keep)

read_with_header(grid, h) ==
  LET names == HeaderNames(grid[h + 1])
      body  == SubSeq(grid, h + 2, Len(grid))
      \* dropna(axis=1, how="all")
      keptCols == {j \in 1..Len(names) : \E r \in 1..Len(body) : body[r][j] # NaNCell}
      cpos == KeptPositions(Len(names), keptCols)
      \* df[df.notna().any(axis=1)]
      keptRows == {r \in 1..Len(body) : \E j \in keptCols : body[r][j] # NaNCell}
      rpos == KeptPositions(Len(body), keptRows)
  IN  [columns |-> [c \in 1..Len(cpos) |-> names[cpos[c]]],
       rows    |-> [r \in 1..Len(rpos) |->
                      [c \in 1..Len(cpos) |-> body[rpos[r]][cpos[c]]]]]

MaxRows   == 2
GridWidth == 2

NoFrame == [columns |-> <<>>, rows |-> <<>>]

LoadInit ==
  /\ pc = "load_call"
  /\ raw \in SeqsOf([1..GridWidth -> CellValues], 1, MaxRows)
  /\ hdr = 0
  /\ df = NoFrame

Load ==
  /\ pc = "load_call"
  /\ hdr' = detect_header(raw)
  /\ df' = read_with_header(raw, detect_header(raw))
  /\ pc' = "load_done"
  /\ UNCHANGED raw

(***************************************************************************)
(* The pipeline (the module-level statements of the script).               *)
(*                                                                         *)
(* unresolved is the set of canonical fields for which col returned None.  *)
(* A resolved field's column is written <<field>>.  loaded_sites (the      *)
(* Sites frame as load_df returned it) and completed (the blocks that ran  *)
(* to their end, in order) are history variables.                          *)
(***************************************************************************)
SitesRequired  == <<"s_site", "s_subj", "s_visit", "s_assess", "s_date">>
AssetsRequired == <<"a_site", "a_subj", "a_visit", "a_assess", "a_date", "a_upload">>
FormsRequired  == <<"f_spid", "f_submitted">>
OptionalFields == {"s_id", "s_status", "s_status_dt", "act_raised", "act_resolved",
                   "f_created", "rev_comment"}
RequiredFields == Range(SitesRequired) \cup Range(AssetsRequired) \cup Range(FormsRequired)
Fields == RequiredFields \cup OptionalFields

\* The value of the variable that holds field f's column (lines 65-89).
ColOf(f) == IF f \in unresolved THEN None ELSE <<f>>

\* The dict `required`, in insertion order.
required ==
  << [name |-> "Sites",  cols |-> [i \in 1..Len(SitesRequired)  |-> ColOf(SitesRequired[i])]],
     [name |-> "Assets", cols |-> [i \in 1..Len(AssetsRequired) |-> ColOf(AssetsRequired[i])]],
     [name |-> "Forms",  cols |-> [i \in 1..Len(FormsRequired)  |-> ColOf(FormsRequired[i])]] >>

IsNone(c) == c = None

\* missing = [c for c in cols if c is None]
MissingOf(cols) == SelectSeq(cols, IsNone)

RECURSIVE ErrsUpTo(_)
ErrsUpTo(n) ==
  IF n = 0 THEN <<>>
  ELSE LET m == MissingOf(required[n].cols)
       IN  IF m # <<>>
           THEN Append(ErrsUpTo(n - 1), [name |-> required[n].name, missing |-> m])
           ELSE ErrsUpTo(n - 1)

\* A validation loop that stops at the first table with a missing column.
validate_errs_first_only ==
  LET bad == {n \in 1..Len(required) : MissingOf(required[n].cols) # <<>>}
  IN  IF bad = {} THEN <<>>
      ELSE <<[name |-> required[Min(bad)].name,
              missing |-> MissingOf(required[Min(bad)].cols)]>>

\* The loop of lines 97-101.
validate_errs == ErrsUpTo(Len(required))

NoError == [at |-> "none", exc |-> "none"]

Validate ==
  /\ pc = "validate"
  /\ errs' = validate_errs
  /\ pc' = IF validate_errs # <<>> THEN "halted" ELSE "parse_dates"
  /\ completed' = Append(completed, "validate")
  /\ UNCHANGED <<unresolved, sites_df, asset_df, forms_df, asset_agg, error, kpi,
                 site_counts, site_flags, loaded_sites>>

(***************************************************************************)
(* Date coercion (lines 107-114).  A raw date cell is a day number, text   *)
(* that is no date (BadText) or empty (NaT).                               *)
(***************************************************************************)
BadText == -2000

\* pd.to_datetime(..., errors="coerce") on one cell.
to_datetime(v) == IF v >= 0 THEN v ELSE NaT

\* The coercion is applied to column c only `if c in df.columns`.
Coerce(f, v) == IF f \in unresolved THEN v ELSE to_datetime(v)

ParseDates ==
  /\ pc = "parse_dates"
  /\ sites_df' = [i \in 1..Len(sites_df) |->
        [sites_df[i] EXCEPT
           !.date      = Coerce("s_date", @),
           !.status_dt = Coerce("s_status_dt", @),
           !.raised    = Coerce("act_raised", @),
           !.resolved  = Coerce("act_resolved", @),
           !.tasks     = [t \in 1..Len(@) |-> to_datetime(@[t])]]]
  /\ asset_df' = [i \in 1..Len(asset_df) |->
        [asset_df[i] EXCEPT !.date   = Coerce("a_date", @),
                            !.upload = Coerce("a_upload", @)]]
  /\ forms_df' = [i \in 1..Len(forms_df) |->
        [forms_df[i] EXCEPT !.created   = Coerce("f_created", @),
                            !.submitted = Coerce("f_submitted", @)]]
  /\ pc' = "asset_merge"
  /\ completed' = Append(completed, "parse_dates")
  /\ UNCHANGED <<unresolved, asset_agg, errs, error, kpi, site_counts, site_flags,
                 loaded_sites>>

(***************************************************************************)
(* Asset delays, aggregation and left join (lines 117-133).                *)
(***************************************************************************)
\* (a - b).dt.days, NaN when an endpoint is missing.
days_between(a, b) == IF a = NaT \/ b = NaT THEN NaT ELSE a - b

\* Series.min() / Series.max(): missing values are skipped.
MinSkipNa(S) == IF S \ {NaT} = {} THEN NaT ELSE Min(S \ {NaT})
MaxSkipNa(S) == IF S \ {NaT} = {} THEN NaT ELSE Max(S \ {NaT})

KeyOf(r) == <<r.site, r.subj, r.visit, r.assess>>

WithUploadDelay(adf) ==
  [i \in 1..Len(adf) |->
     [site |-> adf[i].site, subj |-> adf[i].subj, visit |-> adf[i].visit,
      assess |-> adf[i].assess, date |-> adf[i].date, upload |-> adf[i].upload,
      upload_delay |-> days_between(adf[i].upload, adf[i].date)]]

\* groupby([a_site, a_subj, a_visit, a_assess]).agg(min, max): one row per key.
AssetAgg(adf) ==
  { [key |-> k,
     first_upload     |-> MinSkipNa({adf[i].upload : i \in {j \in 1..Len(adf) : KeyOf(adf[j]) = k}}),
     max_upload_delay |-> MaxSkipNa({adf[i].upload_delay : i \in {j \in 1..Len(adf) : KeyOf(adf[j]) = k}})]
    : k \in {KeyOf(adf[i]) : i \in 1..Len(adf)} }

\* .fillna(0).astype(int)
fillna0(v) == IF v = NaT THEN 0 ELSE v

\* One row of the left join with asset_agg, then line 133.  src is a history
\* field: the position of the schedule row the output row stems from.
AssetJoinRow(r, i, agg) ==
  LET g == {x \in agg : x.key = KeyOf(r)}
      fu == IF g = {} THEN NaT ELSE (CHOOSE x \in g : TRUE).first_upload
      md == IF g = {} THEN NaT ELSE (CHOOSE x \in g : TRUE).max_upload_delay
  IN  [src |-> i, site |-> r.site, subj |-> r.subj, visit |-> r.visit,
       assess |-> r.assess, id |-> r.id, date |-> r.date, status |-> r.status,
       status_dt |-> r.status_dt, tasks |-> r.tasks, raised |-> r.raised,
       resolved |-> r.resolved,
       first_upload |-> fu, max_upload_delay |-> fillna0(md)]

AssetMerge ==
  /\ pc = "asset_merge"
  /\ asset_df' = WithUploadDelay(asset_df)
  /\ asset_agg' = AssetAgg(WithUploadDelay(asset_df))
  /\ sites_df' = [i \in 1..Len(sites_df) |->
                    AssetJoinRow(sites_df[i], i, AssetAgg(WithUploadDelay(asset_df)))]
  /\ pc' = "forms_merge"
  /\ completed' = Append(completed, "asset_merge")
  /\ UNCHANGED <<unresolved, forms_df, errs, error, kpi, site_counts, site_flags,
                 loaded_sites>>

(***************************************************************************)
(* Form join (lines 136-140).  forms_df[[f_spid, f_submitted,              *)
(* rev_comment]] raises KeyError when rev_comment is None; with s_id None  *)
(* the renamed frame shares no column with sites_df and merge(on=None)     *)
(* raises MergeError.                                                      *)
(***************************************************************************)
\* An empty text cell.
NaNText == "<NaN>"

FormJoinRow(r, fs, fc) == r @@ [form_submitted |-> fs, review_comment |-> fc]

\* The rows the join yields for schedule row r, in the order of forms_df.
FormMatchesInner(r, fdf) ==
  LET m == SelectSeq([j \in 1..Len(fdf) |-> j], LAMBDA j : fdf[j].id = r.id)
  IN  [n \in 1..Len(m) |-> FormJoinRow(r, fdf[m[n]].submitted, fdf[m[n]].comment)]

\* how="left": a row without a match is kept, with missing form fields.
FormMatches(r, fdf) ==
  LET m == SelectSeq([j \in 1..Len(fdf) |-> j], LAMBDA j : fdf[j].id = r.id)
  IN  IF m = <<>> THEN <<FormJoinRow(r, NaT, NaNText)>>
      ELSE [n \in 1..Len(m) |-> FormJoinRow(r, fdf[m[n]].submitted, fdf[m[n]].comment)]

RECURSIVE FormJoin(_, _)
FormJoin(sdf, fdf) ==
  IF Len(sdf) = 0 THEN <<>>
  ELSE FormJoin(SubSeq(sdf, 1, Len(sdf) - 1), fdf) \o FormMatches(sdf[Len(sdf)], fdf)

Crash(stage, exc) ==
  /\ pc' = "crashed"
  /\ error' = [at |-> stage, exc |-> exc]
  /\ UNCHANGED completed

FormsMerge ==
  /\ pc = "forms_merge"
  /\ IF "rev_comment" \in unresolved
     THEN Crash("forms_merge", "KeyError") /\ UNCHANGED sites_df
     ELSE IF "s_id" \in unresolved
     THEN Crash("forms_merge", "MergeError") /\ UNCHANGED sites_df
     ELSE /\ sites_df' = FormJoin(sites_df, forms_df)
          /\ pc' = "kpi"
          /\ completed' = Append(completed, "forms_merge")
          /\ UNCHANGED error
  /\ UNCHANGED <<unresolved, asset_df, forms_df, asset_agg, errs, kpi, site_counts,
                 site_flags, loaded_sites>>

(***************************************************************************)
(* KPI computations (lines 142-170).  Indexing sites_df with a column that *)
(* is None raises KeyError at the first statement that does so.            *)
(***************************************************************************)
Threshold == 5

\* Series.nunique(): the number of distinct present values.
nunique(S) == Cardinality(S \ {NaT})

\* sites_df[mask][s_id].nunique(), the mask given as the set of its rows.
IdsOf(sdf, rows) == nunique({sdf[i].id : i \in rows})

RECURSIVE SumOver(_, _)
SumOver(f, S) ==
  IF S = {} THEN 0
  ELSE LET x == CHOOSE y \in S : TRUE IN f[x] + SumOver(f, S \ {x})

\* .str.lower() of a status cell.
status_lower(v) ==
  CASE v = "In Progress" -> "in progress"
    [] v = "Complete"    -> "complete"
    [] OTHER             -> v

\* Line 160-162: the largest (task date - scheduled date), missing ones skipped.
task_delay(r) == MaxSkipNa({days_between(r.tasks[t], r.date) : t \in 1..Len(r.tasks)})

\* Line 169.
form_delay(r) == days_between(r.form_submitted, r.first_upload)

IsLate(v) == v # NaT /\ v > Threshold

KpiHead(sdf) ==
  [total_assess |-> nunique({sdf[i].id : i \in 1..Len(sdf)}),
   total_subj   |-> nunique({sdf[i].subj : i \in 1..Len(sdf)})]

KpiInProg(sdf) ==
  [in_prog |-> IdsOf(sdf, {i \in 1..Len(sdf) :
                              status_lower(sdf[i].status) = "in progress"})]

\* avg_cycle is the mean cycle_sum / cycle_n (NaN when cycle_n = 0).
KpiCycle(sdf) ==
  LET d == [i \in 1..Len(sdf) |-> days_between(sdf[i].status_dt, sdf[i].date)]
      ok == {i \in 1..Len(sdf) : d[i] # NaT}
  IN  [cycle_sum |-> SumOver(d, ok), cycle_n |-> Cardinality(ok),
       late_assets |-> IdsOf(sdf, {i \in 1..Len(sdf) :
                                     sdf[i].max_upload_delay > Threshold})]

WithTaskDelay(sdf) ==
  [i \in 1..Len(sdf) |-> sdf[i] @@ [task_delay |-> task_delay(sdf[i])]]

WithFormDelay(sdf) ==
  [i \in 1..Len(sdf) |-> sdf[i] @@ [form_delay |-> form_delay(sdf[i])]]

KpiTasks(sdf) ==
  [late_tasks |-> IdsOf(sdf, {i \in 1..Len(sdf) : IsLate(sdf[i].task_delay)})]

KpiActions(sdf) ==
  [open_actions |-> IdsOf(sdf, {i \in 1..Len(sdf) :
                                   sdf[i].raised # NaT /\ sdf[i].resolved = NaT})]

KpiForms(sdf) ==
  [late_forms |-> IdsOf(sdf, {i \in 1..Len(sdf) : IsLate(sdf[i].form_delay)})]

KPIs ==
  /\ pc = "kpi"
  /\ LET k1 == KpiHead(sites_df)
         k2 == k1 @@ KpiInProg(sites_df)
         t  == WithTaskDelay(sites_df)
         k4 == k2 @@ KpiCycle(sites_df) @@ KpiTasks(t)
         f  == WithFormDelay(t)
         k6 == k4 @@ KpiActions(t) @@ KpiForms(f)
     IN  IF "s_status" \in unresolved
         THEN Crash("kpi", "KeyError") /\ kpi' = k1 /\ UNCHANGED sites_df
         ELSE IF "s_status_dt" \in unresolved
         THEN Crash("kpi", "KeyError") /\ kpi' = k2 /\ UNCHANGED sites_df
         ELSE IF "act_raised" \in unresolved \/ "act_resolved" \in unresolved
         THEN Crash("kpi", "KeyError") /\ kpi' = k4 /\ sites_df' = t
         ELSE /\ kpi' = k6
              /\ sites_df' = f
              /\ pc' = "site_flags"
              /\ completed' = Append(completed, "kpi")
              /\ UNCHANGED error
  /\ UNCHANGED <<unresolved, asset_df, forms_df, asset_agg, errs, site_counts,
                 site_flags, loaded_sites>>

(***************************************************************************)
(* Per-site flags (lines 175-183).  site_counts is assigned; then, while   *)
(* the keyword arguments of agg are evaluated, action_rate is              *)
(*   (act_raised, lambda x: ...).sum()/len(x)                              *)
(* that is .sum() of a tuple, which raises AttributeError: site_flags and  *)
(* its risk_score are never assigned.                                      *)
(***************************************************************************)
SiteCounts(sdf) ==
  [s \in {sdf[i].site : i \in 1..Len(sdf)} |->
     nunique({sdf[i].id : i \in {j \in 1..Len(sdf) : sdf[j].site = s}})]

SiteFlags ==
  /\ pc = "site_flags"
  /\ site_counts' = SiteCounts(sites_df)
  /\ Crash("site_flags", "AttributeError")
  /\ UNCHANGED <<unresolved, sites_df, asset_df, forms_df, asset_agg, errs, kpi,
                 site_flags, loaded_sites>>

(***************************************************************************)
(* Visit-window adherence (lines 186-207).                                 *)
(***************************************************************************)
OffsetKeys == {"Baseline", "Week 4", "Week 12", "Month 6", "Month 12", "Month 18",
               "Month 24", "Month 30"}

offsets ==
  [k \in OffsetKeys |->
     CASE k = "Baseline" -> 0
       [] k = "Week 4"   -> 28
       [] k = "Week 12"  -> 84
       [] k = "Month 6"  -> 182
       [] k = "Month 12" -> 364
       [] k = "Month 18" -> 546
       [] k = "Month 24" -> 728
       [] k = "Month 30" -> 910]

\* "Week" in k
ContainsWeek(k) == k \in {"Week 4", "Week 12"}

tolerance == [k \in DOMAIN offsets |-> IF ContainsWeek(k) THEN 3 ELSE 14]

\* dict.get(k, 0)
get0(d, k) == IF k \in DOMAIN d THEN d[k] ELSE 0

\* The lambda of line 203; a comparison with NaN is False.
within_window(days, assess) ==
  /\ days # NaT
  /\ Abs(days - get0(offsets, assess)) <= get0(tolerance, assess)

\* The rows of sites_df.merge(baseline, on=[s_site, s_subj], how="left") for row r.
BaselineMatches(r, sdf) ==
  LET m == SelectSeq([j \in 1..Len(sdf) |-> j],
                     LAMBDA j : /\ sdf[j].assess = "Baseline"
                                /\ sdf[j].site = r.site
                                /\ sdf[j].subj = r.subj)
      Row(b) == [site |-> r.site, subj |-> r.subj, assess |-> r.assess, date |-> r.date,
                 baseline_date |-> b,
                 days_since_base |-> days_between(r.date, b),
                 within_window |-> within_window(days_between(r.date, b), r.assess)]
  IN  IF m = <<>> THEN <<Row(NaT)>>
      ELSE [n \in 1..Len(m) |-> Row(sdf[m[n]].date)]

RECURSIVE VisitWindowRows(_, _)
VisitWindowRows(n, sdf) ==
  IF n = 0 THEN <<>>
  ELSE VisitWindowRows(n - 1, sdf) \o BaselineMatches(sdf[n], sdf)

\* groupby(s_assess).agg(total=size, on_time=sum); pct = on_time / total * 100.
Adherence(v) ==
  [a \in {v[i].assess : i \in 1..Len(v)} |->
     [total   |-> Cardinality({i \in 1..Len(v) : v[i].assess = a}),
      on_time |-> Cardinality({i \in 1..Len(v) : v[i].assess = a /\ v[i].within_window})]]

VisitWindow ==
  /\ pc = "visit_window"
  /\ vw' = VisitWindowRows(Len(sites_df), sites_df)
  /\ adherence' = Adherence(VisitWindowRows(Len(sites_df), sites_df))
  /\ pc' = "visit_window_done"
  /\ UNCHANGED sites_df

(***************************************************************************)
(* Inputs.                                                                 *)
(***************************************************************************)
\* The three tables hold at most MaxTableRows rows together.
MaxTableRows  == 4
MaxUnresolved == 3
MaxVisitRows  == 2

SiteNames == {"A", "B"}

\* The cells of a schedule row other than its site.
SchedCells ==
  { [id |-> 1, date |-> 10, status |-> "In Progress", status_dt |-> NaT,
     tasks |-> <<12, 20>>, raised |-> 11, resolved |-> NaT],
    [id |-> 2, date |-> BadText, status |-> "Complete", status_dt |-> 15,
     tasks |-> <<BadText, NaT>>, raised |-> NaT, resolved |-> NaT],
    [id |-> 1, date |-> 10, status |-> "Complete", status_dt |-> 18,
     tasks |-> <<NaT, NaT>>, raised |-> 11, resolved |-> 13] }

SchedRows ==
  { [site |-> s, subj |-> 1, visit |-> "V1", assess |-> "Baseline"] @@ c :
      s \in SiteNames, c \in SchedCells }

AssetRows ==
  { [site |-> s, subj |-> 1, visit |-> "V1", assess |-> "Baseline",
     date |-> 10, upload |-> u] : s \in SiteNames, u \in {12, 20, BadText} }

FormRows ==
  { [id |-> i, created |-> 25, submitted |-> u, comment |-> "query"] :
      i \in {1, 2}, u \in {30, BadText} }

\* "Assessment Status Date" contains "Assessment Status": when s_status_dt
\* resolves, so does s_status.
RECURSIVE SubsetsUpTo(_, _)
SubsetsUpTo(S, k) ==
  IF k = 0 THEN {{}}
  ELSE LET smaller == SubsetsUpTo(S, k - 1)
       IN  smaller \cup {u \cup {f} : u \in smaller, f \in S}

UnresolvedSets ==
  { u \in SubsetsUpTo(Fields, MaxUnresolved) : "s_status" \in u => "s_status_dt" \in u }

SampleSites  == << [site |-> "A", subj |-> 1, visit |-> "V1", assess |-> "Baseline",
                    id |-> 1, date |-> 10, status |-> "In Progress", status_dt |-> NaT,
                    tasks |-> <<BadText, 20>>, raised |-> 11, resolved |-> NaT] >>
SampleAssets == << [site |-> "A", subj |-> 1, visit |-> "V1", assess |-> "Baseline",
                    date |-> 10, upload |-> 20] >>
SampleForms  == << [id |-> 1, created |-> 25, submitted |-> 30, comment |-> "query"] >>

VisitRows ==
  { [site |-> "A", subj |-> s, assess |-> a, date |-> d] :
      s \in {1, 2}, a \in {"Baseline", "Week 4", "Month 6", "Screening"},
      d \in {0, 28, 35, NaT} }

ColIdle  == columns = <<>> /\ cands = <<>> /\ result = None
LoadIdle == raw = <<>> /\ hdr = 0 /\ df = NoFrame
VwIdle   == vw = <<>> /\ adherence = <<>>
PipeIdle ==
  /\ unresolved = {} /\ sites_df = <<>> /\ asset_df = <<>> /\ forms_df = <<>>
  /\ asset_agg = {} /\ errs = <<>> /\ error = NoError /\ kpi = <<>>
  /\ site_counts = <<>> /\ site_flags = <<>> /\ loaded_sites = <<>>
  /\ completed = <<>>

\* The state when the three reports are loaded and their columns resolved
\* (line 89).  The tables vary in the runs where every column resolved; the
\* runs with unresolved columns read one fixed set of tables (no failure
\* below depends on a cell's value).
Init ==
  /\ pc = "validate"
  /\ \/ /\ unresolved = {}
        /\ \E ns \in 0..MaxTableRows :
             \E na \in 0..(MaxTableRows - ns) :
               \E nf \in 0..(MaxTableRows - ns - na) :
                 /\ sites_df \in [1..ns -> SchedRows]
                 /\ asset_df \in [1..na -> AssetRows]
                 /\ forms_df \in [1..nf -> FormRows]
     \/ /\ unresolved \in UnresolvedSets
        /\ sites_df = SampleSites
        /\ asset_df = SampleAssets
        /\ forms_df = SampleForms
  /\ loaded_sites = sites_df
  /\ asset_agg = {} /\ errs = <<>> /\ error = NoError /\ kpi = <<>>
  /\ site_counts = <<>> /\ site_flags = <<>> /\ completed = <<>>
  /\ ColIdle /\ LoadIdle /\ VwIdle

Next ==
  \/ Validate    /\ UNCHANGED <<colVars, loadVars, vwVars>>
  \/ ParseDates  /\ UNCHANGED <<colVars, loadVars, vwVars>>
  \/ AssetMerge  /\ UNCHANGED <<colVars, loadVars, vwVars>>
  \/ FormsMerge  /\ UNCHANGED <<colVars, loadVars, vwVars>>
  \/ KPIs        /\ UNCHANGED <<colVars, loadVars, vwVars>>
  \/ SiteFlags   /\ UNCHANGED <<colVars, loadVars, vwVars>>

Spec == Init /\ [][Next]_vars

\* The resolver alone.
InitCol == ColInit /\ LoadIdle /\ PipeIdle /\ VwIdle
NextCol == Resolve /\ UNCHANGED <<loadVars, pipeVars, vwVars>>
SpecCol == InitCol /\ [][NextCol]_vars

\* The loader alone.
InitLoad == LoadInit /\ ColIdle /\ PipeIdle /\ VwIdle
NextLoad == Load /\ UNCHANGED <<colVars, pipeVars, vwVars>>
SpecLoad == InitLoad /\ [][NextLoad]_vars

\* The visit-window block alone, on a reconciled table.
InitVisit ==
  /\ pc = "visit_window"
  /\ sites_df \in SeqsOf(VisitRows, 0, MaxVisitRows)
  /\ unresolved = {} /\ asset_df = <<>> /\ forms_df = <<>> /\ asset_agg = {}
  /\ errs = <<>> /\ error = NoError /\ kpi = <<>> /\ site_counts = <<>>
  /\ site_flags = <<>> /\ loaded_sites = <<>> /\ completed = <<>>
  /\ vw = <<>> /\ adherence = <<>>
  /\ ColIdle /\ LoadIdle
NextVisit ==
  VisitWindow /\ UNCHANGED <<colVars, loadVars, unresolved, asset_df, forms_df,
                             asset_agg, errs, error, kpi, site_counts, site_flags,
                             loaded_sites, completed>>
SpecVisit == InitVisit /\ [][NextVisit]_vars

(***************************************************************************)
(* Properties.                                                             *)
(***************************************************************************)
CandNorms == {normalize(cands[j]) : j \in 1..Len(cands)}

\* Some column's normalized name equals some candidate's.
HasExactMatch == \E i \in 1..Len(columns) : normalize(columns[i]) \in CandNorms

ResultIsExactMatch == result \in Range(columns) /\ normalize(result) \in CandNorms

DistinctNorms ==
  \A i, k \in 1..Len(columns) : normalize(columns[i]) = normalize(columns[k]) => i = k

\* C1 as stated: when some column's normalized name equals a candidate's,
\* col returns a column whose normalized name equals a candidate's, and the
\* column returned is the same for every order of the table's columns.
C1_Original ==
  (pc = "col_done" /\ HasExactMatch) =>
     /\ ResultIsExactMatch
     /\ \A p \in Perms(columns) : col(p, cands) = result

\* C1, amended: when some column's normalized name equals a candidate's,
\* col returns a column whose normalized name equals a candidate's (never a
\* column that only contains a candidate); for every order of the columns
\* the normalized name of the column returned is the same, and the column
\* itself is the same when no two columns share a normalized name.
C1_ExactOutranksSubstring ==
  (pc = "col_done" /\ HasExactMatch) =>
     /\ ResultIsExactMatch
     /\ \A p \in Perms(columns) :
          /\ normalize(col(p, cands)) = normalize(result)
          /\ DistinctNorms => col(p, cands) = result

\* A column that only contains the first candidate stands left of a column
\* that equals the second candidate, and the latter was returned.
C1_Witness ==
  /\ pc = "col_done"
  /\ Len(cands) = 2
  /\ \E i, k \in 1..Len(columns) :
       /\ i < k
       /\ IsSubstring(normalize(cands[1]), normalize(columns[i]))
       /\ normalize(columns[i]) \notin CandNorms
       /\ normalize(columns[k]) = normalize(cands[2])
       /\ result = columns[k]

ExactCols(j) == {i \in 1..Len(columns) : normalize(columns[i]) = normalize(cands[j])}
ContainingCols(j) ==
  {i \in 1..Len(columns) : IsSubstring(normalize(cands[j]), normalize(columns[i]))}

\* C2: in each pass, for the first candidate that has a matching column, col
\* returns the leftmost column whose normalized name equals (pass 1) or
\* contains (pass 2) the normalized candidate.
C2_LeftmostColumn ==
  pc = "col_done" =>
     LET e == {j \in 1..Len(cands) : ExactCols(j) # {}}
         c == {j \in 1..Len(cands) : ContainingCols(j) # {}}
     IN  IF e # {} THEN result = columns[Min(ExactCols(Min(e)))]
         ELSE IF c # {} THEN result = columns[Min(ContainingCols(Min(c)))]
         ELSE result = None

ReqUnresolved(n) ==
  {i \in 1..Len(required[n].cols) : required[n].cols[i] = None}

\* C3: when a required field of any table is unresolved the run goes no
\* further than validation (no date coercion, aggregation, join or metric),
\* and the one report it produces has, for every table with unresolved
\* required fields, one entry that lists each of them.
C3_ValidationHalts ==
  /\ (unresolved \cap RequiredFields # {}) =>
        /\ pc \in {"validate", "halted"}
        /\ completed \in {<<>>, <<"validate">>}
        /\ sites_df = loaded_sites /\ asset_df = SampleAssets /\ forms_df = SampleForms
        /\ asset_agg = {} /\ kpi = <<>> /\ site_counts = <<>>
  /\ pc = "halted" =>
        /\ unresolved \cap RequiredFields # {}
        /\ \A n \in 1..Len(required) :
             LET es == {k \in 1..Len(errs) : errs[k].name = required[n].name}
             IN  IF ReqUnresolved(n) = {} THEN es = {}
                 ELSE /\ Cardinality(es) = 1
                      /\ \A k \in es : Len(errs[k].missing) = Cardinality(ReqUnresolved(n))

\* A halted run with an unresolved required field in each of the three tables.
C3_Witness ==
  /\ pc = "halted"
  /\ \A n \in 1..Len(required) : ReqUnresolved(n) # {}
  /\ Len(errs) = 3

\* C4: a run halts at validation or runs to completion: no stage after
\* validation fails, whichever optional columns are unresolved.
C4_NoStageFails == pc # "crashed" /\ error = NoError

Did(stage) == stage \in Range(completed)

\* The per-site flags block has been executed.
SiteFlagsExecuted == pc = "crashed" /\ error.at = "site_flags"

SiteRows(s) == {i \in 1..Len(sites_df) : sites_df[i].site = s}

\* The late-rate categories of site s as <<late rows, eligible rows>>.
RiskCategories(s) ==
  LET R == SiteRows(s)
  IN  << <<{i \in R : sites_df[i].max_upload_delay > Threshold}, R>>,
         <<{i \in R : IsLate(sites_df[i].task_delay)},
           {i \in R : sites_df[i].task_delay # NaT}>>,
         <<{i \in R : IsLate(sites_df[i].form_delay)},
           {i \in R : sites_df[i].form_delay # NaT}>>,
         <<{i \in R : sites_df[i].raised # NaT /\ sites_df[i].resolved = NaT},
           {i \in R : sites_df[i].raised # NaT}>> >>

RECURSIVE ProdOver(_, _)
ProdOver(f, S) ==
  IF S = {} THEN 1
  ELSE LET x == CHOOSE y \in S : TRUE IN f[x] * ProdOver(f, S \ {x})

\* v = 100 * mean of late/eligible over the categories with eligible rows.
IsRiskOf(v, s) ==
  LET c    == RiskCategories(s)
      def  == {k \in 1..Len(c) : c[k][2] # {}}
      n    == [k \in 1..Len(c) |-> Cardinality(c[k][2])]
      part == [k \in 1..Len(c) |-> Cardinality(c[k][1]) * ProdOver(n, def \ {k})]
  IN  def # {} /\ v * Cardinality(def) * ProdOver(n, def) = 100 * SumOver(part, def)

\* C5: once the per-site flags are computed every site has a risk_score,
\* 100 times the mean late rate over the categories that have eligible rows.
C5_RiskScore ==
  SiteFlagsExecuted =>
     \A i \in 1..Len(sites_df) :
        /\ sites_df[i].site \in DOMAIN site_flags
        /\ IsRiskOf(site_flags[sites_df[i].site].risk_score, sites_df[i].site)

HasBaseline(r) ==
  \E i \in 1..Len(sites_df) :
     /\ sites_df[i].assess = "Baseline"
     /\ sites_df[i].site = r.site
     /\ sites_df[i].subj = r.subj

\* C6: a row is out of window only if its visit type is in the offset table
\* and its subject has a Baseline row, and then exactly when
\* |days - offset| > tolerance; rows without a defined day difference are
\* not counted in the adherence total.
C6_VisitWindow ==
  pc = "visit_window_done" =>
     /\ \A j \in 1..Len(vw) :
          (~vw[j].within_window) <=>
             /\ vw[j].assess \in DOMAIN offsets
             /\ HasBaseline(vw[j])
             /\ vw[j].days_since_base # NaT
             /\ Abs(vw[j].days_since_base - offsets[vw[j].assess]) > tolerance[vw[j].assess]
     /\ \A a \in DOMAIN adherence :
          adherence[a].total =
             Cardinality({j \in 1..Len(vw) : vw[j].assess = a /\ vw[j].days_since_base # NaT})

\* The asset rows (after date coercion) of the group that row r matches.
GroupOf(r) == {j \in 1..Len(asset_df) : KeyOf(asset_df[j]) = KeyOf(r)}

GroupUploads(r) == {asset_df[j].upload : j \in GroupOf(r)} \ {NaT}
GroupDelays(r) ==
  {days_between(asset_df[j].upload, asset_df[j].date) : j \in GroupOf(r)} \ {NaT}

\* C7: after the asset join a schedule row that matches no asset group has
\* max_upload_delay 0 and no first_upload; a row that matches a group has
\* the group's earliest upload and the group's largest upload delay.
C7_AssetJoinValues ==
  Did("asset_merge") =>
     \A i \in 1..Len(sites_df) :
        LET r == sites_df[i]
        IN  IF GroupOf(r) = {}
            THEN r.max_upload_delay = 0 /\ r.first_upload = NaT
            ELSE /\ r.first_upload = (IF GroupUploads(r) = {} THEN NaT ELSE Min(GroupUploads(r)))
                 /\ r.max_upload_delay = (IF GroupDelays(r) = {} THEN NaT ELSE Max(GroupDelays(r)))

\* C8: a derived delay is undefined, never 0, when an endpoint is missing:
\* form_delay needs form_submitted and first_upload, task_delay needs the
\* scheduled date and a task date, and max_upload_delay is 0 by default only
\* for a row that matches no asset group.
C8_UndefinedDelays ==
  /\ Did("kpi") =>
        \A i \in 1..Len(sites_df) :
           /\ sites_df[i].form_delay # NaT =>
                 sites_df[i].form_submitted # NaT /\ sites_df[i].first_upload # NaT
           /\ sites_df[i].task_delay # NaT =>
                 /\ sites_df[i].date # NaT
                 /\ \E t \in 1..Len(sites_df[i].tasks) : sites_df[i].tasks[t] # NaT
  /\ Did("asset_merge") =>
        \A i \in 1..Len(sites_df) :
           (GroupOf(sites_df[i]) # {} /\ GroupDelays(sites_df[i]) = {}) =>
              sites_df[i].max_upload_delay # 0

FormsWithId(v) == {f \in 1..Len(forms_df) : forms_df[f].id = v}

OutputRowsOf(i) == {j \in 1..Len(sites_df) : sites_df[j].src = i}

\* C10: both joins keep every schedule row; the asset join keeps the number
\* of rows (asset groups have distinct keys); after the form join a schedule
\* row has max(1, number of form rows with its assessment id) output rows,
\* and no output row stems from an asset or form row alone.
C10_JoinMultiplicity ==
  /\ \A g, h \in asset_agg : g.key = h.key => g = h
  /\ (Did("asset_merge") /\ ~Did("forms_merge")) =>
        /\ Len(sites_df) = Len(loaded_sites)
        /\ \A i \in 1..Len(sites_df) : sites_df[i].src = i
  /\ Did("asset_merge") =>
        \A j \in 1..Len(sites_df) :
           /\ sites_df[j].src \in 1..Len(loaded_sites)
           /\ KeyOf(sites_df[j]) = KeyOf(loaded_sites[sites_df[j].src])
           /\ sites_df[j].id = loaded_sites[sites_df[j].src].id
           /\ sites_df[j].first_upload # NaT => GroupOf(sites_df[j]) # {}
  /\ Did("forms_merge") =>
        /\ \A i \in 1..Len(loaded_sites) :
             Cardinality(OutputRowsOf(i)) =
                IF FormsWithId(loaded_sites[i].id) = {} THEN 1
                ELSE Cardinality(FormsWithId(loaded_sites[i].id))
        /\ \A j \in 1..Len(sites_df) :
             IF FormsWithId(sites_df[j].id) = {}
             THEN sites_df[j].form_submitted = NaT
             ELSE \E f \in FormsWithId(sites_df[j].id) :
                     sites_df[j].form_submitted = forms_df[f].submitted

\* After the form join one schedule row has two output rows and another,
\* without a form, has one.
C10_Witness ==
  /\ Did("forms_merge")
  /\ \E i, k \in 1..Len(loaded_sites) :
       /\ Cardinality(OutputRowsOf(i)) = 2
       /\ Cardinality(FormsWithId(loaded_sites[i].id)) = 2
       /\ FormsWithId(loaded_sites[k].id) = {}
       /\ Cardinality(OutputRowsOf(k)) = 1

BothMarkers(i) ==
  /\ \E j \in 1..Len(raw[i + 1]) : str_lower(raw[i + 1][j]) = "subject number"
  /\ \E j \in 1..Len(raw[i + 1]) : str_lower(raw[i + 1][j]) = "study procedure"

OneMarker(i) ==
  /\ ~BothMarkers(i)
  /\ \E j \in 1..Len(raw[i + 1]) :
        str_lower(raw[i + 1][j]) \in {"subject number", "study procedure"}

\* C9: the header row is the first row whose lower-cased cells include both
\* "subject number" and "study procedure", and row 0 when there is none.
C9_HeaderDetection ==
  pc = "load_done" =>
     LET q == {i \in 0..(Len(raw) - 1) : BothMarkers(i)}
     IN  /\ q # {} => (hdr \in q /\ \A i \in q : hdr <= i)
         /\ q = {} => hdr = 0

\* A row with one marker stands above the first row with both, which became
\* the header.
C9_Witness ==
  /\ pc = "load_done"
  /\ Len(raw) >= 2
  /\ OneMarker(0)
  /\ BothMarkers(1)
  /\ hdr = 1

====
